---- MODULE Spec2Model ----
(***************************************************************************)
(* Beam-search caption decoder of base_model.py: the Caption value, the    *)
(* bounded heap TopN, and BaseModel.beam_search.                           *)
(*                                                                         *)
(* Two specifications are given.  SpecTopN drives one TopN object with     *)
(* arbitrary push / extract / reset calls.  Spec runs beam_search on a     *)
(* batch, with the step function (sess.run on the decoder graph) as a      *)
(* nondeterministic oracle returning one log-probability vector per        *)
(* example and call.                                                       *)
(*                                                                         *)
(* A Caption is modelled by its sentence and score.  Its memory and        *)
(* output fields are opaque payload: the search only copies them from the  *)
(* step function's result into the next call's feed, it never branches on  *)
(* them.                                                                   *)
(***************************************************************************)
EXTENDS Integers, Sequences, FiniteSets

\* ---------------------------------------------------------------- bounds
MaxN == 2
MaxPushes == 4
MaxBatch == 2
MaxBeam == 2
MaxSentLen == 3
MaxWords == 3
\* log-probability values the step function returns in one whole run
MaxDraws == 18

\* values the step function may return as a log-probability
LogProbs == {-2, -1}

\* scores of the captions pushed in SpecTopN
TestScores == {-3, -2, -1}

VARIABLES
    \* --- one TopN object under arbitrary calls (SpecTopN)
    topn,        \* [n, data, none]: _n, _data, and whether _data is None
    pushed,      \* captions pushed without error since construction / reset
    lastOp,      \* the method called last
    raised,      \* what the last call raised ("none" when it returned)
    extracted,   \* list returned by the last call, <<>> when it returned None
    \* --- beam_search (Spec)
    batch_size, beam_size, max_sent_len,
    num_words,   \* vocabulary size, the length of a logprobs row
    stop,        \* the index w of the word table with idx2word[w] == "."
    pc,          \* "loop", "slot", "done", "error"
    idx, b,      \* loop variables of lines 348 and 356
    partial_captions, complete_captions, partial_captions_lists,
    results,
    calls,       \* number of sess.run calls of line 365 issued so far
    solo         \* a second run: example 0 alone, fed example 0's outputs

topnVars == <<topn, pushed, lastOp, raised, extracted>>
paramVars == <<batch_size, beam_size, max_sent_len, num_words, stop>>
batchVars == <<pc, idx, b, partial_captions, complete_captions,
               partial_captions_lists, results, calls>>
vars == <<topnVars, paramVars, batchVars, solo>>

\* ------------------------------------------------------------- Caption
Caption(sentence, score) == [sentence |-> sentence, score |-> score]

\* Caption.__cmp__(x, y) == -1, the outcome heapq and sort test for
CmpLt(x, y) == x.score < y.score

\* --------------------------------------------------------------- heapq
\* heap positions are 0-based as in heapq; heap[p + 1] is position p
RECURSIVE SiftDownLoop(_, _, _, _)
SiftDownLoop(heap, startpos, pos, newitem) ==
    IF pos > startpos
    THEN LET parentpos == (pos - 1) \div 2
             parent == heap[parentpos + 1]
         IN  IF CmpLt(newitem, parent)
             THEN SiftDownLoop([heap EXCEPT ![pos + 1] = parent],
                               startpos, parentpos, newitem)
             ELSE [heap EXCEPT ![pos + 1] = newitem]
    ELSE [heap EXCEPT ![pos + 1] = newitem]

siftdown(heap, startpos, pos) ==
    SiftDownLoop(heap, startpos, pos, heap[pos + 1])

RECURSIVE SiftUpLoop(_, _, _)
SiftUpLoop(heap, pos, newitem) ==
    LET endpos == Len(heap)
        childpos == 2 * pos + 1
        rightpos == childpos + 1
    IN  IF childpos < endpos
        THEN LET c == IF rightpos < endpos
                         /\ ~CmpLt(heap[childpos + 1], heap[rightpos + 1])
                      THEN rightpos ELSE childpos
             IN  SiftUpLoop([heap EXCEPT ![pos + 1] = heap[c + 1]], c, newitem)
        ELSE [heap |-> [heap EXCEPT ![pos + 1] = newitem], pos |-> pos]

siftup(heap, pos) ==
    LET r == SiftUpLoop(heap, pos, heap[pos + 1])
    IN  siftdown(r.heap, pos, r.pos)

heappush(heap, item) == siftdown(Append(heap, item), 0, Len(heap))

\* the list after heappushpop; the returned item is dropped by TopN.push
heappushpopWrongWay(heap, item) ==
    IF heap # <<>> /\ CmpLt(item, heap[1])
    THEN siftup([heap EXCEPT ![1] = item], 0)
    ELSE heap

heappushpop(heap, item) ==
    IF heap # <<>> /\ CmpLt(heap[1], item)
    THEN siftup([heap EXCEPT ![1] = item], 0)
    ELSE heap

\* list.sort(reverse=True): stable, descending by __cmp__
RECURSIVE InsertDesc(_, _)
InsertDesc(sorted, x) ==
    IF sorted = <<>> THEN <<x>>
    ELSE IF CmpLt(Head(sorted), x) THEN <<x>> \o sorted
         ELSE <<Head(sorted)>> \o InsertDesc(Tail(sorted), x)

RECURSIVE SortFrom(_, _)
SortFrom(sorted, s) ==
    IF s = <<>> THEN sorted
    ELSE SortFrom(InsertDesc(sorted, Head(s)), Tail(s))

SortReverse(s) == SortFrom(<<>>, s)

\* ---------------------------------------------------------------- TopN
\* TopN.__init__
NewTopN(n) == [n |-> n, data |-> <<>>, none |-> FALSE]

\* TopN.size; the assertion cannot fail where beam_search calls it
size(t) == Len(t.data)

pushNoAssert(t, x) ==
    IF Len(t.data) < t.n
    THEN [topn |-> [t EXCEPT !.data = heappush(t.data, x), !.none = FALSE],
          raised |-> "none"]
    ELSE [topn |-> [t EXCEPT !.data = heappushpop(t.data, x), !.none = FALSE],
          raised |-> "none"]

\* TopN.push: the object after the call and what the call raised
push(t, x) ==
    IF t.none
    THEN [topn |-> t, raised |-> "AssertionError"]
    ELSE IF Len(t.data) < t.n
         THEN [topn |-> [t EXCEPT !.data = heappush(t.data, x)],
               raised |-> "none"]
         ELSE [topn |-> [t EXCEPT !.data = heappushpop(t.data, x)],
               raised |-> "none"]

\* TopN.extract: the object after the call, the returned list, what it raised
extract(t, sort) ==
    IF t.none
    THEN [topn |-> t, ret |-> <<>>, raised |-> "AssertionError"]
    ELSE [topn |-> [t EXCEPT !.data = <<>>, !.none = TRUE],
          ret |-> IF sort THEN SortReverse(t.data) ELSE t.data,
          raised |-> "none"]

\* TopN.reset
reset(t) == [t EXCEPT !.data = <<>>, !.none = FALSE]

\* ------------------------------------------------ beam_search, helpers
Min(x, y) == IF x < y THEN x ELSE y

\* num_steps of line 355
NumStepsAlwaysBeam(i) == beam_size

NumSteps(i) == IF i = 0 THEN 1 ELSE beam_size

\* self.word_table.idx2word[w] == "."
IsStopNever(w) == FALSE

IsStop(w) == w = stop

\* list(enumerate(logprobs[k])) after sort(key=lambda x: -x[1]): the word
\* indices by descending log-probability, equal ones in index order
RECURSIVE InsertWord(_, _, _)
InsertWord(ranked, w, lp) ==
    IF ranked = <<>> THEN <<w>>
    ELSE IF lp[Head(ranked)] < lp[w] THEN <<w>> \o ranked
         ELSE <<Head(ranked)>> \o InsertWord(Tail(ranked), w, lp)

RECURSIVE RankWords(_, _, _)
RankWords(ranked, w, lp) ==
    IF w >= num_words THEN ranked
    ELSE RankWords(InsertWord(ranked, w, lp), w + 1, lp)

\* words_and_logprobs[0:self.beam_size]
CandidatesOneLess(lp) ==
    LET ranked == RankWords(<<>>, 0, lp)
    IN  SubSeq(ranked, 1, Min(beam_size - 1, Len(ranked)))

Candidates(lp) ==
    LET ranked == RankWords(<<>>, 0, lp)
    IN  SubSeq(ranked, 1, Min(beam_size, Len(ranked)))

\* lines 381-388 for one example: every candidate word extends the parent
\* caption and is pushed into the complete or the partial set
RECURSIVE PushCandidates(_, _, _, _, _)
PushCandidates(P, C, parent, lp, cands) ==
    IF cands = <<>> THEN [partial |-> P, complete |-> C]
    ELSE LET w == Head(cands)
             beam == Caption(Append(parent.sentence, w), parent.score + lp[w])
         IN  IF IsStop(w)
             THEN PushCandidates(P, push(C, beam).topn, parent, lp, Tail(cands))
             ELSE PushCandidates(push(P, beam).topn, C, parent, lp, Tail(cands))

\* lines 350-353 over the examples of a run
ExtractLists(P) == [k \in DOMAIN P |-> extract(P[k], FALSE).ret]
ResetSets(P) == [k \in DOMAIN P |-> reset(extract(P[k], FALSE).topn)]

\* pcl[b] of lines 360-363 is undefined for some example
SlotMissing(L, slot) == \E k \in DOMAIN L : Len(L[k]) <= slot

\* lines 374-388 over the examples of a run
Expand(P, C, L, slot, logprobs) ==
    [k \in DOMAIN P |->
        PushCandidates(P[k], C[k], L[k][slot + 1], logprobs[k],
                       Candidates(logprobs[k]))]

\* lines 390-396: the set each example's result is extracted from, with the
\* rebinding complete_captions[k] = partial_captions[k] of line 393
UseCompleteAlways(C, k) == TRUE

UseComplete(C, k) == size(C[k]) # 0

FinalResults(P, C) ==
    [k \in DOMAIN P |->
        IF UseComplete(C, k) THEN extract(C[k], TRUE).ret
        ELSE extract(P[k], TRUE).ret]
FinalPartial(P, C) ==
    [k \in DOMAIN P |->
        IF UseComplete(C, k) THEN P[k] ELSE extract(P[k], TRUE).topn]
FinalComplete(P, C) ==
    [k \in DOMAIN P |->
        IF UseComplete(C, k) THEN extract(C[k], TRUE).topn
        ELSE extract(P[k], TRUE).topn]

\* lines 336-345
SeedPartial(dom) ==
    [k \in dom |-> push(NewTopN(beam_size), Caption(<<>>, 0)).topn]
SeedComplete(dom) == [k \in dom |-> NewTopN(beam_size)]

Examples == 0 .. (batch_size - 1)

\* iterations of the slot loop of line 356 in a run that is not cut short
RunCalls ==
    IF max_sent_len = 0 THEN 0 ELSE 1 + (max_sent_len - 1) * beam_size
LogProbRows == [0 .. (num_words - 1) -> LogProbs]

\* ------------------------------------------- the second run (example 0)
\* beam_search on a batch holding example 0 alone, one step of it; lp is
\* the logprobs row the step function returns for that example at this call
SoloInit ==
    [pc |-> "loop", idx |-> 0, b |-> 0,
     partial |-> SeedPartial({0}), complete |-> SeedComplete({0}),
     lists |-> [k \in {0} |-> <<>>], results |-> [k \in {0} |-> <<>>]]

SoloNext(s, lp) ==
    CASE s.pc = "loop" /\ s.idx < max_sent_len ->
            [s EXCEPT !.lists = ExtractLists(s.partial),
                      !.partial = ResetSets(s.partial),
                      !.pc = "slot", !.b = 0]
      [] s.pc = "loop" /\ s.idx >= max_sent_len ->
            [s EXCEPT !.results = FinalResults(s.partial, s.complete),
                      !.partial = FinalPartial(s.partial, s.complete),
                      !.complete = FinalComplete(s.partial, s.complete),
                      !.pc = "done"]
      [] s.pc = "slot" /\ SlotMissing(s.lists, s.b) ->
            [s EXCEPT !.pc = "error"]
      [] s.pc = "slot" /\ ~SlotMissing(s.lists, s.b) ->
            LET e == Expand(s.partial, s.complete, s.lists, s.b,
                            [k \in {0} |-> lp])
                last == s.b + 1 >= NumSteps(s.idx)
            IN  [s EXCEPT !.partial = [k \in {0} |-> e[k].partial],
                          !.complete = [k \in {0} |-> e[k].complete],
                          !.b = IF last THEN s.b ELSE s.b + 1,
                          !.idx = IF last THEN s.idx + 1 ELSE s.idx,
                          !.pc = IF last THEN "loop" ELSE "slot"]
      [] OTHER -> s

\* ------------------------------------------------------ Spec: beam_search
Init ==
    /\ batch_size \in 1 .. MaxBatch
    /\ beam_size \in 1 .. MaxBeam
    /\ max_sent_len \in 0 .. MaxSentLen
    /\ num_words \in 1 .. MaxWords
    /\ stop \in 0 .. (num_words - 1)
    /\ batch_size * num_words * RunCalls <= MaxDraws
    /\ pc = "loop" /\ idx = 0 /\ b = 0
    /\ partial_captions = SeedPartial(Examples)
    /\ complete_captions = SeedComplete(Examples)
    /\ partial_captions_lists = [k \in Examples |-> <<>>]
    /\ results = [k \in Examples |-> <<>>]
    /\ calls = 0
    /\ solo = SoloInit
    /\ topn = NewTopN(0) /\ pushed = <<>> /\ lastOp = "init"
    /\ raised = "none" /\ extracted = <<>>

\* lines 350-353
ExtractPartials ==
    /\ pc = "loop" /\ idx < max_sent_len
    /\ partial_captions_lists' = ExtractLists(partial_captions)
    /\ partial_captions' = ResetSets(partial_captions)
    /\ pc' = "slot" /\ b' = 0
    /\ solo' = SoloNext(solo, [w \in 0 .. (num_words - 1) |-> -1])
    /\ UNCHANGED <<idx, complete_captions, results, calls>>
    /\ UNCHANGED <<topnVars, paramVars>>

\* lines 356-388 for one slot b: the feed is gathered, the step function is
\* called once, every example's candidates are pushed
StepSlot ==
    /\ pc = "slot" /\ ~SlotMissing(partial_captions_lists, b)
    /\ \E logprobs \in [Examples -> LogProbRows] :
          LET e == Expand(partial_captions, complete_captions,
                          partial_captions_lists, b, logprobs)
          IN  /\ partial_captions' = [k \in Examples |-> e[k].partial]
              /\ complete_captions' = [k \in Examples |-> e[k].complete]
              /\ solo' = SoloNext(solo, logprobs[0])
    /\ calls' = calls + 1
    /\ IF b + 1 < NumSteps(idx)
       THEN b' = b + 1 /\ pc' = "slot" /\ idx' = idx
       ELSE b' = b /\ pc' = "loop" /\ idx' = idx + 1
    /\ UNCHANGED <<partial_captions_lists, results>>
    /\ UNCHANGED <<topnVars, paramVars>>

\* lines 360-363: pcl[b] raises IndexError before the step function is called
SlotIndexError ==
    /\ pc = "slot" /\ SlotMissing(partial_captions_lists, b)
    /\ pc' = "error"
    /\ solo' = SoloNext(solo, [w \in 0 .. (num_words - 1) |-> -1])
    /\ UNCHANGED <<idx, b, partial_captions, complete_captions,
                   partial_captions_lists, results, calls>>
    /\ UNCHANGED <<topnVars, paramVars>>

\* lines 390-396
Finish ==
    /\ pc = "loop" /\ idx >= max_sent_len
    /\ results' = FinalResults(partial_captions, complete_captions)
    /\ partial_captions' = FinalPartial(partial_captions, complete_captions)
    /\ complete_captions' = FinalComplete(partial_captions, complete_captions)
    /\ pc' = "done"
    /\ solo' = SoloNext(solo, [w \in 0 .. (num_words - 1) |-> -1])
    /\ UNCHANGED <<idx, b, partial_captions_lists, calls>>
    /\ UNCHANGED <<topnVars, paramVars>>

\* the second run goes on after the batch run has raised
SoloContinues ==
    /\ pc = "error" /\ solo.pc \in {"loop", "slot"}
    /\ \E lp \in LogProbRows : solo' = SoloNext(solo, lp)
    /\ UNCHANGED <<topnVars, paramVars, batchVars>>

Next == ExtractPartials \/ StepSlot \/ SlotIndexError \/ Finish
        \/ SoloContinues

Spec == Init /\ [][Next]_vars

\* ------------------------------------------- SpecTopN: one TopN object
TestCaptions == {Caption(<<w>>, s) : w \in 0 .. 1, s \in TestScores}

InitTopN ==
    /\ \E n \in -1 .. MaxN : topn = NewTopN(n)
    /\ pushed = <<>> /\ lastOp = "init" /\ raised = "none"
    /\ extracted = <<>>
    /\ batch_size = 0 /\ beam_size = 1 /\ max_sent_len = 0
    /\ num_words = 1 /\ stop = 0
    /\ pc = "done" /\ idx = 0 /\ b = 0
    /\ partial_captions = <<>> /\ complete_captions = <<>>
    /\ partial_captions_lists = <<>> /\ results = <<>>
    /\ calls = 0
    /\ solo = [pc |-> "done"]

DoPush ==
    /\ Len(pushed) < MaxPushes
    /\ \E x \in TestCaptions :
          LET r == push(topn, x)
          IN  /\ topn' = r.topn
              /\ raised' = r.raised
              /\ pushed' = IF r.raised = "none" THEN Append(pushed, x)
                           ELSE pushed
    /\ lastOp' = "push"
    /\ extracted' = <<>>
    /\ UNCHANGED <<paramVars, batchVars, solo>>

DoExtract ==
    /\ \E sort \in BOOLEAN :
          LET r == extract(topn, sort)
          IN  /\ topn' = r.topn
              /\ raised' = r.raised
              /\ extracted' = r.ret
    /\ lastOp' = "extract"
    /\ UNCHANGED <<pushed, paramVars, batchVars, solo>>

DoReset ==
    /\ topn' = reset(topn)
    /\ pushed' = <<>>
    /\ raised' = "none"
    /\ lastOp' = "reset"
    /\ extracted' = <<>>
    /\ UNCHANGED <<paramVars, batchVars, solo>>

NextTopN == DoPush \/ DoExtract \/ DoReset

SpecTopN == InitTopN /\ [][NextTopN]_vars

\* ===================================================== properties
Max(x, y) == IF x > y THEN x ELSE y
Range(s) == {s[i] : i \in 1 .. Len(s)}
Cnt(s, v) == Cardinality({i \in 1 .. Len(s) : s[i].score = v})
CntAbove(s, v) == Cardinality({i \in 1 .. Len(s) : s[i].score > v})
Occurrences(s, c) == Cardinality({i \in 1 .. Len(s) : s[i] = c})
SameItems(s, t) ==
    /\ Len(s) = Len(t)
    /\ \A c \in Range(s) \cup Range(t) : Occurrences(s, c) = Occurrences(t, c)
NonIncreasing(s) == \A i \in 1 .. (Len(s) - 1) : s[i].score >= s[i + 1].score
StopFree(c) == \A i \in 1 .. Len(c.sentence) : c.sentence[i] # stop
StopLastOnly(c) ==
    /\ Len(c.sentence) >= 1
    /\ \A i \in 1 .. Len(c.sentence) :
          (c.sentence[i] = stop) <=> (i = Len(c.sentence))

\* --------------------------------------------------------------- C1
\* C1 (SpecTopN): for a capacity n >= 1, after any sequence of pushes into
\* a fresh or reset TopN the scores held are the n highest scores of the
\* pushed multiset (all of them when fewer than n were pushed): of every
\* score v the set holds as many captions as were pushed with it, capped by
\* the room the higher scores leave.  The right-hand side reads only the
\* multiset of pushed scores, so every push order retains the same scores.
C1_KeepsTopN ==
    (topn.n >= 1 /\ ~topn.none) =>
        \A v \in TestScores :
            Cnt(topn.data, v) =
                Max(0, Min(Cnt(pushed, v), topn.n - CntAbove(pushed, v)))

\* more captions pushed than the capacity, two of them with equal scores,
\* the last one better than the first
C1_Witness ==
    /\ topn.n >= 1 /\ ~topn.none /\ lastOp = "push"
    /\ Len(pushed) > topn.n
    /\ \E i, j \in 1 .. Len(pushed) : i # j /\ pushed[i].score = pushed[j].score
    /\ pushed[Len(pushed)].score > pushed[1].score

\* --------------------------------------------------------------- C2
\* C2 (SpecTopN): after every push made on a non-drained set, for every
\* capacity the set was built with, size() <= n.
C2_SizeAtMostN ==
    (lastOp = "push" /\ raised = "none") => size(topn) <= topn.n

\* --------------------------------------------------------------- C3
\* C3 (SpecTopN): extract, with or without sort, drains the set; on a
\* drained set every push raises AssertionError and changes nothing, and the
\* set stays drained until reset; reset leaves the set empty and not
\* drained, and a push on a set that is not drained returns normally.
C3_DrainedUntilReset ==
    [][ /\ (lastOp' = "extract" /\ raised' = "none") => topn'.none
        /\ (topn.none /\ lastOp' = "push") =>
              (raised' = "AssertionError" /\ topn' = topn /\ pushed' = pushed)
        /\ (topn.none /\ lastOp' # "reset") => topn'.none
        /\ (lastOp' = "reset") => (~topn'.none /\ topn'.data = <<>>)
        /\ (~topn.none /\ lastOp' = "push") => raised' = "none"
      ]_vars

\* a push has just failed on a set drained by extract
C3_Witness ==
    lastOp = "push" /\ raised = "AssertionError" /\ topn.none /\ pushed # <<>>

\* --------------------------------------------------------------- C4
\* C4 (SpecTopN): a push into a TopN built with n <= 0 raises an error.
C4_InvalidCapacityPushRaises ==
    (lastOp = "push" /\ topn.n <= 0) => raised # "none"

\* --------------------------------------------------------------- C5
\* C5 (Spec): with beam_size >= 2, a run in which the stop token was never
\* a candidate (no complete set ever received a caption) does not raise; it
\* ends after max_sent_len timesteps and returns for every example a list
\* whose first caption has the highest score, holds no stop token and has
\* max_sent_len tokens.
NoStopInResults ==
    \A k \in Examples : \A c \in Range(results[k]) : StopFree(c)

C5_NoStopRunsToTheEnd ==
    beam_size >= 2 =>
        /\ pc = "error" =>
              \E k \in Examples : complete_captions[k].data # <<>>
        /\ (pc = "done" /\ NoStopInResults) =>
              /\ idx = max_sent_len
              /\ \A k \in Examples :
                    /\ results[k] # <<>>
                    /\ Len(results[k][1].sentence) = max_sent_len
                    /\ \A c \in Range(results[k]) :
                          c.score <= results[k][1].score

\* a completed run of at least two timesteps with beam_size >= 2 in which
\* no example ever had the stop token among its candidates, and an example
\* returns captions of different scores
C5_Witness ==
    /\ pc = "done" /\ beam_size >= 2 /\ max_sent_len >= 2
    /\ NoStopInResults
    /\ \E k \in Examples :
          Len(results[k]) >= 2 /\ results[k][1].score > results[k][2].score

\* --------------------------------------------------------------- C6
\* C6 (Spec): the step that completes beam_search returns for every example
\* exactly the captions of its complete set when that set is not empty and
\* of its partial set otherwise, in non-increasing score order.
C6_ResultsFromChosenSet ==
    [][ (pc = "loop" /\ pc' = "done") =>
           \A k \in Examples :
              LET src == IF complete_captions[k].data # <<>>
                         THEN complete_captions[k].data
                         ELSE partial_captions[k].data
              IN  SameItems(results'[k], src) /\ NonIncreasing(results'[k])
      ]_vars

\* a completed run in which an example returns two completed captions of
\* different scores although its partial set, left untouched, holds a
\* better caption
C6_Witness ==
    /\ pc = "done"
    /\ \E k \in Examples :
          /\ Len(results[k]) >= 2 /\ ~StopFree(results[k][1])
          /\ results[k][1].score > results[k][2].score
          /\ \E p \in Range(partial_captions[k].data) :
                p.score > results[k][1].score

\* --------------------------------------------------------------- C7
\* C7 (Spec): the outcome for example 0 is the same in the batch run and in
\* the run that agrees with it on example 0's step-function outputs: one
\* completes exactly when the other does, with the same ranked list.
C7_SameOutcomeInBothRuns ==
    /\ pc = "done" => (solo.pc = "done" /\ solo.results[0] = results[0])
    /\ solo.pc = "done" => (pc = "done" /\ solo.results[0] = results[0])

\* --------------------------------------------------------------- C8
\* C8 (Spec): whenever a slot is about to be gathered, every example's
\* extracted list holds one caption at timestep 0 and beam_size captions at
\* every later timestep.
C8_ListsAreFull ==
    pc = "slot" =>
        \A k \in Examples :
            Len(partial_captions_lists[k]) = IF idx = 0 THEN 1 ELSE beam_size

\* --------------------------------------------------------------- C9
\* C9 (Spec): the step function is called once at timestep 0 and beam_size
\* times at every later timestep, one call at a time; a run that completes
\* with max_sent_len >= 1 has issued 1 + (max_sent_len - 1) * beam_size
\* calls, whatever the batch size.
CallsBefore(i) == IF i = 0 THEN 0 ELSE 1 + (i - 1) * beam_size

C9_CallCount ==
    /\ pc = "slot" =>
          /\ calls = CallsBefore(idx) + b
          /\ b < (IF idx = 0 THEN 1 ELSE beam_size)
    /\ pc = "loop" => calls = CallsBefore(idx)
    /\ (pc = "done" /\ max_sent_len >= 1) =>
          calls = 1 + (max_sent_len - 1) * beam_size

\* a completed run of three timesteps with two slots in the second and third
C9_Witness ==
    /\ pc = "done" /\ max_sent_len = 3 /\ beam_size = 2 /\ calls = 5

\* -------------------------------------------------------------- C10
\* C10 (Spec): every caption of a complete set ends with the stop token and
\* holds it nowhere else; no caption of a partial set or of an extracted
\* list holds it; the captions of the partial sets have idx + 1 tokens while
\* timestep idx is being expanded and idx tokens between timesteps; and a
\* caption found in a complete set after a step was either there before the
\* step or is a caption of the slot's list extended by the stop token, so a
\* completed caption is never extended.
C10_State ==
    \A k \in Examples :
        /\ \A c \in Range(complete_captions[k].data) : StopLastOnly(c)
        /\ \A c \in Range(partial_captions[k].data)
                    \cup Range(partial_captions_lists[k]) : StopFree(c)
        /\ \A c \in Range(partial_captions[k].data) :
              Len(c.sentence) = IF pc \in {"slot", "error"} THEN idx + 1
                                ELSE idx
        /\ pc \in {"slot", "error"} =>
              \A c \in Range(partial_captions_lists[k]) :
                  Len(c.sentence) = idx

C10_Step ==
    \A k \in Examples :
        \A c \in Range(complete_captions'[k].data) :
            \/ c \in Range(complete_captions[k].data)
            \/ /\ pc = "slot"
               /\ c.sentence =
                     Append(partial_captions_lists[k][b + 1].sentence, stop)

C10_StopRouting == [](C10_State) /\ [][C10_Step]_vars

\* between two timesteps: a complete set holds a caption of two tokens and
\* a partial set is not empty
C10_Witness ==
    /\ pc = "loop"
    /\ \E k \in Examples : \E c \in Range(complete_captions[k].data) :
          Len(c.sentence) >= 2
    /\ \E k \in Examples : partial_captions[k].data # <<>>

====
